---- MODULE Spec2Model ----
(***************************************************************************)
(* SSZ merkleization engine of cairo/py/ssz.py.                            *)
(*                                                                         *)
(* Byte strings are sequences of units.  A unit is either one raw byte,    *)
(* written <<b>> with b in 0..255, or one SHA-256 digest, written          *)
(* <<"sha256", x>> where x is the byte string that was hashed; a digest    *)
(* unit stands for 32 bytes.  SHA-256 is therefore modelled as a           *)
(* collision-free function whose digests are never equal to raw bytes.     *)
(* Python's bytes concatenation is \o on these sequences.                  *)
(*                                                                         *)
(* Every function returns a result record [err, ret]: err is "" and ret is *)
(* <<value>> when the function returns, err names the exception and ret is *)
(* <<>> when it raises.                                                    *)
(***************************************************************************)
EXTENDS Integers, Sequences, FiniteSets, TLC

VARIABLES pc, op, args, layer, size, rounds, err, ret

vars == <<pc, op, args, layer, size, rounds, err, ret>>

\* ---------------------------------------------------------------- bounds
MaxX == 40
MaxChunks == 4
MaxLimit == 8
MaxMixLen == 260
MaxBytes == 66

\* ------------------------------------------------------- values, results
None == <<>>

Some(v) == <<v>>

Ok(v) == [err |-> "", ret |-> <<v>>]

Raise(e) == [err |-> e, ret |-> <<>>]

TooManyChunks == "ValueError: Too many chunks"

ByteVectorMismatch == "ValueError: ByteVector: expected length"

ByteListTooLong == "ValueError: ByteList: length > max"

IndexError == "IndexError: list index out of range"

OverflowError == "OverflowError: int out of range for to_bytes"

KeyError == "KeyError"

B(b) == <<b>>

Rep(b, n) == [i \in 1..n |-> B(b)]

UnitLen(u) == IF Len(u) = 1 THEN 1 ELSE 32

\* len(b) of a Python bytes object: one per raw byte, 32 per digest
BytesLen(s) == Len(s) + (32 - 1) * Cardinality({i \in 1..Len(s) : UnitLen(s[i]) = 32})

\* b[lo:hi] of a Python bytes object made of raw bytes (0-based, hi exclusive)
Slice(s, lo, hi) == SubSeq(s, lo + 1, IF hi < Len(s) THEN hi ELSE Len(s))

\* hashlib.sha256(x).digest()
sha256(x) == << <<"sha256", x>> >>

\* ------------------------------------------------------ next_power_of_two
\* slip: the loop runs while p <= x
RECURSIVE next_power_of_two_loop_le(_, _)
next_power_of_two_loop_le(p, x) ==
    IF p <= x THEN next_power_of_two_loop_le(p * 2, x) ELSE p

RECURSIVE next_power_of_two_loop(_, _)
next_power_of_two_loop(p, x) ==
    IF p < x THEN next_power_of_two_loop(p * 2, x) ELSE p

next_power_of_two(x) == IF x <= 1 THEN 1 ELSE next_power_of_two_loop(1, x)

\* -------------------------------------------------------------- merkleize
\* slip: the capacity check uses >=
merkleize_too_many_ge(n, limit) == limit # None /\ n >= limit[1]

\* the capacity check of lines 29-31
merkleize_too_many(n, limit) == limit # None /\ n > limit[1]

\* slip: the target size is not rounded up to a power of two
merkleize_size_exact(n, limit) == IF limit # None THEN limit[1] ELSE n

\* slip: the target size follows the number of chunks although a limit is given
merkleize_size_of_n(n, limit) == next_power_of_two(n)

\* the target size of lines 32-35
merkleize_size(n, limit) ==
    IF limit # None THEN next_power_of_two(limit[1]) ELSE next_power_of_two(n)

\* chunks + [b"\x00" * 32] * (size - n); a negative repeat count gives []
chunks_padded(chunks, sz) ==
    IF sz > Len(chunks) THEN chunks \o [i \in 1..(sz - Len(chunks)) |-> Rep(0, 32)]
    ELSE chunks

\* slip: right = layer[i], the left element is hashed with itself
new_layer_left_twice(l) ==
    IF Len(l) % 2 = 1 THEN Raise(IndexError)
    ELSE Ok([k \in 1..(Len(l) \div 2) |-> sha256(l[2 * k - 1] \o l[2 * k - 1])])

\* one pass of the for loop of lines 44-48 over a whole layer
new_layer(l) ==
    IF Len(l) % 2 = 1 THEN Raise(IndexError)
    ELSE Ok([k \in 1..(Len(l) \div 2) |-> sha256(l[2 * k - 1] \o l[2 * k])])

RECURSIVE merkleize_reduce(_)
merkleize_reduce(l) ==
    IF Len(l) > 1
    THEN LET nl == new_layer(l)
         IN  IF nl.err # "" THEN nl ELSE merkleize_reduce(nl.ret[1])
    ELSE IF Len(l) = 0 THEN Raise(IndexError) ELSE Ok(l[1])

merkleize(chunks, limit) ==
    LET n == Len(chunks)
    IN  IF merkleize_too_many(n, limit) THEN Raise(TooManyChunks)
        ELSE merkleize_reduce(chunks_padded(chunks, merkleize_size(n, limit)))

\* ------------------------------------------------------------ int.to_bytes
\* slip: the bytes come out most significant first
RECURSIVE big_endian(_, _)
big_endian(x, n) ==
    IF n = 0 THEN <<>> ELSE big_endian(x \div 256, n - 1) \o <<B(x % 256)>>

RECURSIVE little_endian(_, _)
little_endian(x, n) ==
    IF n = 0 THEN <<>> ELSE <<B(x % 256)>> \o little_endian(x \div 256, n - 1)

RECURSIVE shift_right_bytes(_, _)
shift_right_bytes(x, n) ==
    IF n = 0 \/ x = 0 THEN x ELSE shift_right_bytes(x \div 256, n - 1)

\* x.to_bytes(n, "little"): raises OverflowError unless 0 <= x < 256^n
to_bytes(x, n) ==
    IF x < 0 \/ shift_right_bytes(x, n) > 0 THEN Raise(OverflowError)
    ELSE Ok(little_endian(x, n))

\* ---------------------------------------------------------- mix_in_length
mix_in_length(root, length) ==
    LET length_bytes_256 == to_bytes(length, 32)
    IN  IF length_bytes_256.err # "" THEN length_bytes_256
        ELSE Ok(sha256(root \o length_bytes_256.ret[1]))

\* ------------------------------------------------------ hash_tree_root_of_*
hash_tree_root_of_uint64(x) ==
    LET b == to_bytes(x, 8)
    IN  IF b.err # "" THEN b
        ELSE LET b_padded == b.ret[1] \o Rep(0, 32 - BytesLen(b.ret[1]))
             IN  merkleize(<<b_padded>>, None)

hash_tree_root_of_uint256(x) ==
    LET b == to_bytes(x, 32)
    IN  IF b.err # "" THEN b ELSE merkleize(<<b.ret[1]>>, None)

\* the chunk cut at offset i by lines 93-96 and 115-117: slice, then zero-pad
padded_chunk(bytes, i) ==
    LET chunk == Slice(bytes, i, i + 32)
    IN  IF BytesLen(chunk) < 32 THEN chunk \o Rep(0, 32 - BytesLen(chunk))
        ELSE chunk

\* for i in range(0, len(bytes), 32): chunks.append(padded chunk at i)
split_chunks(bytes) ==
    [k \in 1..((BytesLen(bytes) + 31) \div 32) |-> padded_chunk(bytes, 32 * (k - 1))]

hash_tree_root_of_byte_vector(fixed_bytes, length) ==
    IF BytesLen(fixed_bytes) # length THEN Raise(ByteVectorMismatch)
    ELSE merkleize(split_chunks(fixed_bytes), None)

\* slip: the chunk limit is rounded down
chunk_limit_floor(max_length) == max_length \div 32

\* chunk_limit = (max_length + 31) // 32
chunk_limit(max_length) == (max_length + 31) \div 32

hash_tree_root_of_byte_list(variable_bytes, max_length) ==
    IF BytesLen(variable_bytes) > max_length THEN Raise(ByteListTooLong)
    ELSE LET chunks == split_chunks(variable_bytes)
             root == merkleize(chunks, Some(chunk_limit(max_length)))
         IN  IF root.err # "" THEN root
             ELSE mix_in_length(root.ret[1], BytesLen(variable_bytes))

\* ------------------------------ hash_tree_root_of_execution_payload_header
BV(name, n) == [name |-> name, type |-> "ByteVector", n |-> n]

U64(name) == [name |-> name, type |-> "uint64", n |-> 8]

U256(name) == [name |-> name, type |-> "uint256", n |-> 32]

BL(name, n) == [name |-> name, type |-> "ByteList", n |-> n]

\* slip: gas_used is appended before gas_limit
Schema_gas_swapped ==
    << BV("parent_hash", 32), BV("fee_recipient", 20), BV("state_root", 32),
       BV("receipts_root", 32), BV("logs_bloom", 256), BV("prev_randao", 32),
       U64("block_number"), U64("gas_used"), U64("gas_limit"), U64("timestamp"),
       BL("extra_data", 32), U256("base_fee_per_gas"), BV("block_hash", 32),
       BV("transactions_root", 32), BV("withdrawals_root", 32),
       U64("blob_gas_used"), U64("excess_blob_gas") >>

\* slip: the byte list line reads the key of another field
Schema_wrong_key ==
    << BV("parent_hash", 32), BV("fee_recipient", 20), BV("state_root", 32),
       BV("receipts_root", 32), BV("logs_bloom", 256), BV("prev_randao", 32),
       U64("block_number"), U64("gas_limit"), U64("gas_used"), U64("timestamp"),
       BL("parent_hash", 32), U256("base_fee_per_gas"), BV("block_hash", 32),
       BV("transactions_root", 32), BV("withdrawals_root", 32),
       U64("blob_gas_used"), U64("excess_blob_gas") >>

\* the 17 roots.append(...) lines, in the order they are written
Schema ==
    << BV("parent_hash", 32), BV("fee_recipient", 20), BV("state_root", 32),
       BV("receipts_root", 32), BV("logs_bloom", 256), BV("prev_randao", 32),
       U64("block_number"), U64("gas_limit"), U64("gas_used"), U64("timestamp"),
       BL("extra_data", 32), U256("base_fee_per_gas"), BV("block_hash", 32),
       BV("transactions_root", 32), BV("withdrawals_root", 32),
       U64("blob_gas_used"), U64("excess_blob_gas") >>

\* one line roots.append(hash_tree_root_of_<type>(fields[<name>], <n>))
field_root(f, fields) ==
    IF f.name \notin DOMAIN fields THEN Raise(KeyError)
    ELSE CASE f.type = "ByteVector" -> hash_tree_root_of_byte_vector(fields[f.name], f.n)
           [] f.type = "ByteList" -> hash_tree_root_of_byte_list(fields[f.name], f.n)
           [] f.type = "uint64" -> hash_tree_root_of_uint64(fields[f.name])
           [] f.type = "uint256" -> hash_tree_root_of_uint256(fields[f.name])

\* slip: a failing field is skipped and the remaining fields still run
RECURSIVE append_roots_skipping(_, _, _, _)
append_roots_skipping(schema, fields, i, roots) ==
    IF i > Len(schema) THEN Ok(roots)
    ELSE LET r == field_root(schema[i], fields)
         IN  IF r.err # "" THEN append_roots_skipping(schema, fields, i + 1, roots)
             ELSE append_roots_skipping(schema, fields, i + 1, Append(roots, r.ret[1]))

\* the appends run top to bottom; the first exception leaves the function
RECURSIVE append_roots(_, _, _, _)
append_roots(schema, fields, i, roots) ==
    IF i > Len(schema) THEN Ok(roots)
    ELSE LET r == field_root(schema[i], fields)
         IN  IF r.err # "" THEN r
             ELSE append_roots(schema, fields, i + 1, Append(roots, r.ret[1]))

container_root_of(schema, fields) ==
    LET roots == append_roots(schema, fields, 1, <<>>)
    IN  IF roots.err # "" THEN roots
        ELSE LET container_root == merkleize(roots.ret[1], None)
             IN  IF container_root.err # "" THEN container_root
                 ELSE Ok(<<container_root.ret[1], roots.ret[1]>>)

hash_tree_root_of_execution_payload_header(fields) ==
    container_root_of(Schema, fields)

\* ----------------------------------------------------------------- inputs
ZeroChunk == Rep(0, 32)

ChunkPool == {ZeroChunk, Rep(1, 32), sha256(Rep(2, 64))}

ChunkSeqs == UNION {[1..n -> ChunkPool] : n \in 0..MaxChunks}

Limits == {None} \cup {Some(c) : c \in 0..MaxLimit}

MixLengths == (0..MaxMixLen) \cup {65535, 65536, 16777216}

IntPool == {-1, 0, 1, 255, 256, 65536}

\* the byte string 01 02 03 ... of length k
Ramp(k) == [i \in 1..k |-> B(i % 256)]

\* a well-formed header: every key present, every value of its field's type
BaseFields ==
    [ parent_hash |-> Rep(1, 32), fee_recipient |-> Rep(1, 20),
      state_root |-> Rep(1, 32), receipts_root |-> Rep(1, 32),
      logs_bloom |-> Rep(1, 256), prev_randao |-> Rep(1, 32),
      block_number |-> 0, gas_limit |-> 0, gas_used |-> 0, timestamp |-> 0,
      extra_data |-> <<>>, base_fee_per_gas |-> 0, block_hash |-> Rep(1, 32),
      transactions_root |-> Rep(1, 32), withdrawals_root |-> Rep(1, 32),
      blob_gas_used |-> 0, excess_blob_gas |-> 0 ]

\* the values tried for a field: two well-formed ones and malformed ones
Variants(f) ==
    CASE f.type = "ByteVector" -> <<Rep(1, f.n), Rep(2, f.n), Rep(1, f.n - 1), Rep(1, f.n + 1)>>
      [] f.type = "ByteList" -> <<(<<>>), <<B(1)>>, Rep(1, f.n), Rep(1, f.n + 1)>>
      [] OTHER -> <<0, 1, 256, -1>>

\* a change <<i, j>> to the entry of field i: value j, or the key removed (j = 0)
Changes == {<<i, j>> : i \in 1..Len(Schema), j \in 0..Len(Variants(Schema[1]))}

Change(fields, c) ==
    LET f == Schema[c[1]]
    IN  IF c[2] = 0 THEN [k \in DOMAIN fields \ {f.name} |-> fields[k]]
        ELSE [k \in DOMAIN fields \cup {f.name} |->
                  IF k = f.name THEN Variants(f)[c[2]] ELSE fields[k]]

\* the base header with up to two entries changed
HeaderInputs == {Change(Change(BaseFields, c1), c2) : c1 \in Changes, c2 \in Changes}

\* ---------------------------------------------------------- state machine
Init ==
    /\ pc = "idle"
    /\ op = ""
    /\ args = <<>>
    /\ layer = <<>>
    /\ size = 0
    /\ rounds = 0
    /\ err = ""
    /\ ret = None

call_next_power_of_two ==
    \E x \in 0..MaxX :
        LET r == Ok(next_power_of_two(x))
        IN  /\ pc = "idle"
            /\ op' = "next_power_of_two"
            /\ args' = [x |-> x]
            /\ pc' = IF r.err = "" THEN "returned" ELSE "raised"
            /\ err' = r.err
            /\ ret' = r.ret
            /\ UNCHANGED <<layer, size, rounds>>

\* merkleize, lines 28-42: capacity check, target size, padding
merkleize_enter ==
    \E chunks \in ChunkSeqs, limit \in Limits :
        /\ pc = "idle"
        /\ op' = "merkleize"
        /\ args' = [chunks |-> chunks, limit |-> limit]
        /\ rounds' = 0
        /\ IF merkleize_too_many(Len(chunks), limit)
           THEN /\ pc' = "raised"
                /\ err' = TooManyChunks
                /\ UNCHANGED <<layer, size, ret>>
           ELSE /\ pc' = "merkleize_loop"
                /\ size' = merkleize_size(Len(chunks), limit)
                /\ layer' = chunks_padded(chunks, merkleize_size(Len(chunks), limit))
                /\ UNCHANGED <<err, ret>>

\* merkleize, lines 43-49: one iteration of the while loop
merkleize_round ==
    /\ pc = "merkleize_loop"
    /\ Len(layer) > 1
    /\ LET nl == new_layer(layer)
       IN  IF nl.err # ""
           THEN /\ pc' = "raised"
                /\ err' = nl.err
                /\ UNCHANGED <<layer, rounds>>
           ELSE /\ layer' = nl.ret[1]
                /\ rounds' = rounds + 1
                /\ UNCHANGED <<pc, err>>
    /\ UNCHANGED <<op, args, size, ret>>

\* merkleize, line 51: return layer[0]
merkleize_return ==
    /\ pc = "merkleize_loop"
    /\ Len(layer) <= 1
    /\ IF Len(layer) = 0
       THEN /\ pc' = "raised"
            /\ err' = IndexError
            /\ UNCHANGED ret
       ELSE /\ pc' = "returned"
            /\ ret' = Some(layer[1])
            /\ UNCHANGED err
    /\ UNCHANGED <<op, args, layer, size, rounds>>

call_mix_in_length ==
    \E root \in ChunkPool, length \in MixLengths :
        LET r == mix_in_length(root, length)
        IN  /\ pc = "idle"
            /\ op' = "mix_in_length"
            /\ args' = [root |-> root, length |-> length]
            /\ pc' = IF r.err = "" THEN "returned" ELSE "raised"
            /\ err' = r.err
            /\ ret' = r.ret
            /\ UNCHANGED <<layer, size, rounds>>

call_hash_tree_root_of_uint64 ==
    \E x \in IntPool :
        LET r == hash_tree_root_of_uint64(x)
        IN  /\ pc = "idle"
            /\ op' = "hash_tree_root_of_uint64"
            /\ args' = [x |-> x]
            /\ pc' = IF r.err = "" THEN "returned" ELSE "raised"
            /\ err' = r.err
            /\ ret' = r.ret
            /\ UNCHANGED <<layer, size, rounds>>

call_hash_tree_root_of_uint256 ==
    \E x \in IntPool :
        LET r == hash_tree_root_of_uint256(x)
        IN  /\ pc = "idle"
            /\ op' = "hash_tree_root_of_uint256"
            /\ args' = [x |-> x]
            /\ pc' = IF r.err = "" THEN "returned" ELSE "raised"
            /\ err' = r.err
            /\ ret' = r.ret
            /\ UNCHANGED <<layer, size, rounds>>

call_hash_tree_root_of_byte_vector ==
    \E k \in 0..MaxBytes, length \in 0..MaxBytes :
        LET r == hash_tree_root_of_byte_vector(Ramp(k), length)
        IN  /\ pc = "idle"
            /\ op' = "hash_tree_root_of_byte_vector"
            /\ args' = [fixed_bytes |-> Ramp(k), length |-> length]
            /\ pc' = IF r.err = "" THEN "returned" ELSE "raised"
            /\ err' = r.err
            /\ ret' = r.ret
            /\ UNCHANGED <<layer, size, rounds>>

call_hash_tree_root_of_byte_list ==
    \E k \in 0..MaxBytes, max_length \in 0..MaxBytes :
        LET r == hash_tree_root_of_byte_list(Ramp(k), max_length)
        IN  /\ pc = "idle"
            /\ op' = "hash_tree_root_of_byte_list"
            /\ args' = [variable_bytes |-> Ramp(k), max_length |-> max_length]
            /\ pc' = IF r.err = "" THEN "returned" ELSE "raised"
            /\ err' = r.err
            /\ ret' = r.ret
            /\ UNCHANGED <<layer, size, rounds>>

call_hash_tree_root_of_execution_payload_header ==
    \E fields \in HeaderInputs :
        LET r == hash_tree_root_of_execution_payload_header(fields)
        IN  /\ pc = "idle"
            /\ op' = "hash_tree_root_of_execution_payload_header"
            /\ args' = [fields |-> fields]
            /\ pc' = IF r.err = "" THEN "returned" ELSE "raised"
            /\ err' = r.err
            /\ ret' = r.ret
            /\ UNCHANGED <<layer, size, rounds>>

Next ==
    \/ call_next_power_of_two
    \/ merkleize_enter
    \/ merkleize_round
    \/ merkleize_return
    \/ call_mix_in_length
    \/ call_hash_tree_root_of_uint64
    \/ call_hash_tree_root_of_uint256
    \/ call_hash_tree_root_of_byte_vector
    \/ call_hash_tree_root_of_byte_list
    \/ call_hash_tree_root_of_execution_payload_header

Spec == Init /\ [][Next]_vars

TypeOK ==
    /\ pc \in {"idle", "merkleize_loop", "returned", "raised"}
    /\ (pc = "returned") => (err = "" /\ Len(ret) = 1)
    /\ (pc = "raised") => (err # "" /\ ret = None)

\* ------------------------------------------- reference notions for claims
RECURSIVE IsPowerOfTwo(_)
IsPowerOfTwo(n) == n = 1 \/ (n > 1 /\ n % 2 = 0 /\ IsPowerOfTwo(n \div 2))

RECURSIVE TwoToThe(_)
TwoToThe(k) == IF k = 0 THEN 1 ELSE 2 * TwoToThe(k - 1)

\* the smallest power of two that is >= x, by search
SmallestPowerOfTwoAtLeast(x) ==
    CHOOSE p \in 1..(2 * x + 1) :
        /\ IsPowerOfTwo(p)
        /\ p >= x
        /\ \A q \in 1..(p - 1) : ~(IsPowerOfTwo(q) /\ q >= x)

\* chunks followed by zero chunks, m leaves in all
PaddedLeaves(chunks, m) ==
    [i \in 1..m |-> IF i <= Len(chunks) THEN chunks[i] ELSE ZeroChunk]

\* the root of the perfect binary tree over the leaves, computed top-down
RECURSIVE TreeRoot(_)
TreeRoot(leaves) ==
    IF Len(leaves) = 1 THEN leaves[1]
    ELSE LET h == Len(leaves) \div 2
         IN  sha256(TreeRoot(SubSeq(leaves, 1, h)) \o TreeRoot(SubSeq(leaves, h + 1, 2 * h)))

\* the 32-byte little-endian chunk of a length below 2^31, byte by byte
LengthChunk(length) ==
    [i \in 1..32 |-> B(IF i <= 4 THEN (length \div TwoToThe(8 * (i - 1))) % 256 ELSE 0)]

\* ceil(a / 32), by search
CeilDiv32(a) == CHOOSE c \in 0..a : 32 * c >= a /\ (c = 0 \/ 32 * (c - 1) < a)

\* the 32-byte chunks of raw data, the last one zero-filled, by position
DataChunks(data) ==
    [k \in 1..CeilDiv32(Len(data)) |->
        [j \in 1..32 |-> IF 32 * (k - 1) + j <= Len(data) THEN data[32 * (k - 1) + j] ELSE B(0)]]

\* the root of a byte vector of n raw bytes: the tree over its chunks
VectorRoot(v, n) ==
    TreeRoot(PaddedLeaves(DataChunks(v), SmallestPowerOfTwoAtLeast(CeilDiv32(n))))

\* the root of a byte list of at most n raw bytes: its byte length mixed in
ListRoot(v, n) ==
    sha256(TreeRoot(PaddedLeaves(DataChunks(v), SmallestPowerOfTwoAtLeast(CeilDiv32(n))))
           \o LengthChunk(Len(v)))

\* the root of an unsigned integer below 2^31 of either width
UintRoot(x) == LengthChunk(x)

\* the field roots of the execution payload header, in declared order
HeaderFieldRoots(fields) ==
    << VectorRoot(fields["parent_hash"], 32),
       VectorRoot(fields["fee_recipient"], 20),
       VectorRoot(fields["state_root"], 32),
       VectorRoot(fields["receipts_root"], 32),
       VectorRoot(fields["logs_bloom"], 256),
       VectorRoot(fields["prev_randao"], 32),
       UintRoot(fields["block_number"]),
       UintRoot(fields["gas_limit"]),
       UintRoot(fields["gas_used"]),
       UintRoot(fields["timestamp"]),
       ListRoot(fields["extra_data"], 32),
       UintRoot(fields["base_fee_per_gas"]),
       VectorRoot(fields["block_hash"], 32),
       VectorRoot(fields["transactions_root"], 32),
       VectorRoot(fields["withdrawals_root"], 32),
       UintRoot(fields["blob_gas_used"]),
       UintRoot(fields["excess_blob_gas"]) >>

\* a schema with the fields at positions i and j exchanged
SwapFields(schema, i, j) ==
    [k \in 1..Len(schema) |-> IF k = i THEN schema[j] ELSE IF k = j THEN schema[i] ELSE schema[k]]

\* whether a field's lookup or encoding fails, told from the declared type
FieldFails(f, fields) ==
    \/ f.name \notin DOMAIN fields
    \/ f.type = "ByteVector" /\ Len(fields[f.name]) # f.n
    \/ f.type = "ByteList" /\ Len(fields[f.name]) > f.n
    \/ f.type \in {"uint64", "uint256"} /\ fields[f.name] < 0

FieldError(f, fields) ==
    IF f.name \notin DOMAIN fields THEN KeyError
    ELSE CASE f.type = "ByteVector" -> ByteVectorMismatch
           [] f.type = "ByteList" -> ByteListTooLong
           [] OTHER -> OverflowError

FailingFields(fields) == {i \in 1..Len(Schema) : FieldFails(Schema[i], fields)}

FirstFailing(fields) ==
    CHOOSE i \in FailingFields(fields) : \A j \in FailingFields(fields) : i <= j

HeaderCall == op = "hash_tree_root_of_execution_payload_header"

Finished == pc \in {"returned", "raised"}

\* ------------------------------------------------------------------ claims

\* C1: merkleize raises the too-many-chunks error, and returns no root, exactly
\* when a capacity is supplied and the number of chunks exceeds it; with
\* n <= capacity (n = capacity and n = 0 included) it never raises it.
C1_CapacityExceeded ==
    (op = "merkleize") =>
        LET n == Len(args.chunks)
            over == args.limit # None /\ n > args.limit[1]
        IN  /\ over => (pc = "raised" /\ err = TooManyChunks /\ ret = None)
            /\ ~over => (pc # "raised" /\ err = "")

C1_Witness ==
    /\ op = "merkleize"
    /\ pc = "raised"
    /\ err = TooManyChunks
    /\ args.limit # None
    /\ Len(args.chunks) = args.limit[1] + 1

\* C8: next_power_of_two(x) is the smallest power of two >= x for every
\* x >= 0, with 0 -> 1, 1 -> 1, 2 -> 2, 3 -> 4, 5 -> 8.
C8_NextPowerOfTwo ==
    (op = "next_power_of_two" /\ pc = "returned") =>
        LET x == args.x
            r == ret[1]
        IN  /\ r = SmallestPowerOfTwoAtLeast(x)
            /\ x = 0 => r = 1
            /\ x = 1 => r = 1
            /\ x = 2 => r = 2
            /\ x = 3 => r = 4
            /\ x = 5 => r = 8

C8_Witness == op = "next_power_of_two" /\ pc = "returned" /\ args.x = 5 /\ ret = Some(8)

\* C10: in merkleize's reduction the layer length is always a power of two,
\* equal to the target size halved once per completed round, so no pairing
\* reads past the end of the layer, and the function returns with one element
\* after log2(target size) rounds (none when the target size is 1).
C10_Reduction ==
    (op = "merkleize") =>
        /\ err # IndexError
        /\ (pc = "merkleize_loop") =>
               /\ IsPowerOfTwo(Len(layer))
               /\ Len(layer) * TwoToThe(rounds) = size
        /\ (pc = "returned") =>
               /\ Len(layer) = 1
               /\ TwoToThe(rounds) = size
               /\ (size = 1 => rounds = 0)

C10_Witness ==
    /\ op = "merkleize"
    /\ pc = "returned"
    /\ rounds = 3
    /\ size = 8
    /\ Len(args.chunks) = 3


\* C2: with a capacity supplied, the tree merkleize builds has
\* nextPowerOfTwo(capacity) leaves whatever the number of chunks, so every
\* capacity >= n with the same next power of two (5 and 8, say) gives the
\* same root for the same chunks.
C2_CapacityClass ==
    (op = "merkleize" /\ pc = "returned" /\ args.limit # None) =>
        LET chunks == args.chunks
            m == SmallestPowerOfTwoAtLeast(args.limit[1])
        IN  /\ size = m
            /\ ret[1] = TreeRoot(PaddedLeaves(chunks, m))
            /\ \A c2 \in Len(chunks)..MaxLimit :
                   (SmallestPowerOfTwoAtLeast(c2) = m) =>
                       merkleize(chunks, Some(c2)) = Ok(ret[1])

C2_Witness ==
    /\ op = "merkleize"
    /\ pc = "returned"
    /\ args.limit = Some(5)
    /\ Len(args.chunks) = 2
    /\ merkleize(args.chunks, Some(8)) = Ok(ret[1])

\* C4: mix_in_length hashes the root followed by the length as a 32-byte
\* little-endian chunk, so for a fixed root two different non-negative
\* lengths give different outputs.
C4_MixInLength ==
    (op = "mix_in_length" /\ pc = "returned") =>
        /\ ret[1] = sha256(args.root \o LengthChunk(args.length))
        /\ \A l2 \in MixLengths \ {args.length} :
               mix_in_length(args.root, l2) # Ok(ret[1])

C4_Witness ==
    /\ op = "mix_in_length"
    /\ pc = "returned"
    /\ args.length = 256
    /\ mix_in_length(args.root, 0) # Ok(ret[1])

\* C9: hash_tree_root_of_byte_list raises exactly when len(data) > max_length,
\* and then with its own length error: for len(data) <= max_length the chunk
\* count is at most ceil(max_length / 32), the inner capacity check passes,
\* and the result is the length in bytes mixed once into the root of the
\* tree over the capacity-padded chunks.
C9_ByteList ==
    (op = "hash_tree_root_of_byte_list" /\ Finished) =>
        LET data == args.variable_bytes
            cap == CeilDiv32(args.max_length)
        IN  /\ (pc = "raised") <=> (Len(data) > args.max_length)
            /\ (pc = "raised") => (err = ByteListTooLong)
            /\ (pc = "returned") =>
                   /\ Len(split_chunks(data)) <= cap
                   /\ ret[1] = sha256(TreeRoot(PaddedLeaves(DataChunks(data),
                                                           SmallestPowerOfTwoAtLeast(cap)))
                                      \o LengthChunk(Len(data)))

C9_Witness ==
    /\ op = "hash_tree_root_of_byte_list"
    /\ pc = "returned"
    /\ Len(args.variable_bytes) = 33
    /\ args.max_length = 33


\* C3 as stated: exchanging any two fields of the schema, the values held
\* fixed, changes the container root.
C3_AnySwapChangesRoot ==
    (HeaderCall /\ pc = "returned") =>
        \A i \in 1..Len(Schema), j \in 1..Len(Schema) :
            (i < j) =>
                container_root_of(SwapFields(Schema, i, j), args.fields) # Ok(ret[1])

\* C3 as amended: exchanging two fields of the schema, the values held fixed,
\* changes the container root whenever the two fields' roots differ, and
\* leaves it unchanged when they are equal.
C3_SwapOfDistinctRoots ==
    (HeaderCall /\ pc = "returned") =>
        \A i \in 1..Len(Schema), j \in 1..Len(Schema) :
            (i < j) =>
                LET swapped == container_root_of(SwapFields(Schema, i, j), args.fields)
                IN  /\ swapped.err = ""
                    /\ (ret[1][2][i] # ret[1][2][j]) <=> (swapped.ret[1][1] # ret[1][1])

C3_Witness ==
    /\ HeaderCall
    /\ pc = "returned"
    /\ ret[1][2][1] # ret[1][2][3]
    /\ ret[1][2][7] = ret[1][2][12]
    /\ container_root_of(SwapFields(Schema, 1, 3), args.fields).ret[1][1] # ret[1][1]

\* C5: for a valid mapping the header operation returns 17 field roots, one
\* per field in declared order, each by its declared type, and the container
\* root is the root of the 32-leaf tree over them (no capacity).
C5_Container ==
    (HeaderCall /\ pc = "returned") =>
        /\ Len(ret[1]) = 2
        /\ Len(ret[1][2]) = 17
        /\ ret[1][2] = HeaderFieldRoots(args.fields)
        /\ ret[1][1] = TreeRoot(PaddedLeaves(ret[1][2], 32))
        /\ merkleize(ret[1][2], None) = Ok(ret[1][1])

C5_Witness ==
    /\ HeaderCall
    /\ pc = "returned"
    /\ Len(ret[1][2]) = 17
    /\ args.fields["gas_limit"] # args.fields["gas_used"]
    /\ args.fields["parent_hash"] # args.fields["state_root"]

\* C6: two header evaluations that differ only in extra_data, empty against
\* the single byte 01, differ in the extra_data field root (the 11th) and
\* agree on the other 16 field roots.
C6_ExtraData ==
    (HeaderCall /\ pc = "returned" /\ args.fields["extra_data"] = <<>>) =>
        LET other == hash_tree_root_of_execution_payload_header(
                         [args.fields EXCEPT !["extra_data"] = <<B(1)>>])
        IN  /\ other.err = ""
            /\ other.ret[1][2][11] # ret[1][2][11]
            /\ \A i \in (1..17) \ {11} : other.ret[1][2][i] = ret[1][2][i]

C6_Witness ==
    /\ HeaderCall
    /\ pc = "returned"
    /\ args.fields["extra_data"] = <<>>
    /\ ret[1][2][11] = sha256(ZeroChunk \o ZeroChunk)

\* C7: the header operation raises exactly when some field is missing or
\* fails to encode; it then raises the error of the first such field in
\* declared order and returns neither a container root nor field roots.
C7_FailFast ==
    (HeaderCall /\ Finished) =>
        /\ (pc = "raised") <=> (FailingFields(args.fields) # {})
        /\ (FailingFields(args.fields) # {}) =>
               /\ ret = None
               /\ err = FieldError(Schema[FirstFailing(args.fields)], args.fields)

C7_Witness ==
    /\ HeaderCall
    /\ pc = "raised"
    /\ ret = None
    /\ Cardinality(FailingFields(args.fields)) = 2
    /\ \E j \in FailingFields(args.fields) :
           FieldError(Schema[j], args.fields) # err

====
